---- MODULE Spec2Model ----
(***************************************************************************)
(* Model of the scan-state and sync-coordination core of hajimi king:      *)
(*   src/utils/sync_utils.py  (SyncUtils: pending queues, flush workers)   *)
(*   src/app/hajimi_king.py   (main scan loop, skip filter, normaliser)    *)
(*                                                                         *)
(* Threads: the scan thread (main, which calls add_keys_to_queue), the two *)
(* workers of the ThreadPoolExecutor that run _batch_send_worker, and the  *)
(* recurring threading.Timer that submits a run every batch_interval.      *)
(***************************************************************************)
EXTENDS Integers, Sequences, FiniteSets, TLC

\* ------------------------------------------------------------------ bounds
Keys == {"k1", "k2"}
MaxKeysArg == 1          \* longest key list handed to add_keys_to_queue
MaxAdds == 2             \* add_keys_to_queue calls the scan thread makes
MaxRuns == 2             \* _batch_send_worker runs the timer submits
MaxWorkers == 2          \* ThreadPoolExecutor(max_workers=2)
Workers == 1..MaxWorkers

KeyLists == UNION {[1..n -> Keys] : n \in 0..MaxKeysArg}
Range(s) == {s[i] : i \in DOMAIN s}

\* ------------------------------------------------------------------- state
VARIABLES
  \* SyncUtils fields
  saving_checkpoint,     \* self.saving_checkpoint
  balancer_enabled,      \* self.balancer_enabled
  gpt_load_enabled,      \* self.gpt_load_enabled
  shutdown_flag,         \* self.shutdown_flag
  batch_timer,           \* "armed" | "none": the pending threading.Timer
  queue,                 \* runs submitted to the executor, not yet started
  runs,                  \* runs submitted so far
  \* the in-memory checkpoint's pending sets, as key -> number of occurrences
  wait_send_balancer,
  wait_send_gpt_load,
  persisted,             \* what the last save_checkpoint wrote: the two sets
  \* scan thread
  pc, ret, akeys, aexc, adds,
  \* pool workers
  wpc, wkeys, wres,
  \* history: keys a returned add_keys_to_queue call put in a sink's queue
  \* that no ok flush of that sink has held since (owed), and the same for
  \* the call in progress (inflight)
  owed_b, owed_g, inflight_b, inflight_g,
  \* history of the returned add_keys_to_queue calls: the key list of the last
  \* one, the queues after it and after the one before, whether the last two
  \* had the same key list, and the balancer queue at start
  last_keys, last_b, last_g, before_b, before_g, rep, start_b,
  \* one flush looked at alone: its stage, sink, batch, the sink's responses
  \* and what the worker function gave back
  fstage, fkind, fkeys, fin, fout,
  \* the group-id cache of SyncUtils, the clock it reads, the clock steps taken,
  \* and the history of the last two _get_gpt_load_group_id calls for one name
  group_id_cache, group_id_cache_time, current_time, ticks, watched, cache_hist,
  \* one process_item call: its stage, what it was given (the file content and
  \* the verdict of each key) and what it did
  tstage, tin, tout,
  \* one normalize_query call: its stage, the token list and the order the
  \* tokens were written in, and the results
  nstage, nin, nout,
  \* the timer thread's position in _start_batch_sender, and whether
  \* executor.shutdown has been called
  tpc, pool_shutdown,
  \* main: the query list, the checkpoint, the clock and the loop's locals
  search_queries, processed_queries, scanned_shas, last_scan_time, now,
  loop_count, qi, query_count, n_items, item_index, item, skip_stats, skip_result,
  \* history of the current pass: the normalized queries it completed, the
  \* indices of the queries it searched and of those it counted as processed
  pass_done, searched, counted,
  \* history: skip_stats before the last should_skip_item call
  stats_before

syncVars == <<saving_checkpoint, balancer_enabled, gpt_load_enabled, shutdown_flag,
              batch_timer, queue, runs, wait_send_balancer, wait_send_gpt_load, persisted>>
scanVars == <<pc, ret, akeys, aexc, adds>>
workerVars == <<wpc, wkeys, wres>>
histVars == <<owed_b, owed_g, inflight_b, inflight_g>>
enqVars == <<last_keys, last_b, last_g, before_b, before_g, rep, start_b>>
cacheVars == <<group_id_cache, group_id_cache_time, current_time, ticks, watched, cache_hist>>
triageVars == <<tstage, tin, tout>>
normVars == <<nstage, nin, nout>>
shutVars == <<tpc, pool_shutdown>>
flushVars == <<fstage, fkind, fkeys, fin, fout, cacheVars, triageVars, normVars, shutVars>>
checkpointVars == <<processed_queries, scanned_shas, last_scan_time>>
loopVars == <<search_queries, now, loop_count, qi, query_count, n_items, item_index, item,
              skip_stats, skip_result>>
passVars == <<pass_done, searched, counted, stats_before>>
mainVars == <<checkpointVars, loopVars, passVars>>
vars == <<syncVars, scanVars, workerVars, histVars, enqVars, flushVars, mainVars>>

\* ----------------------------------------------------------- pending sets
Empty == [k \in Keys |-> 0]
PendingSet(p) == {k \in Keys : p[k] > 0}
Count(keys, k) == Cardinality({i \in DOMAIN keys : keys[i] = k})

\* a bug that appends instead of uniting
SetUpdateAppend(p, keys) == [k \in Keys |-> p[k] + Count(keys, k)]
\* set.update(keys): every key of the list is in the set afterwards, once
SetUpdate(p, keys) ==
  [k \in Keys |-> IF p[k] > 0 THEN p[k] ELSE IF k \in Range(keys) THEN 1 ELSE 0]

\* file_manager.save_checkpoint(checkpoint): the pending sets as serialised
Snapshot ==
  [balancer |-> PendingSet(wait_send_balancer), gpt_load |-> PendingSet(wait_send_gpt_load)]

NoRec == [k \in Keys |-> "none"]

\* --------------------------------------------------- _send_balancer_worker
\* The responses of the sink are inputs: get_ok (GET answered 200),
\* current_api_keys (its API_KEYS), put_ok (PUT answered 200), updated_api_keys
\* (the API_KEYS echoed by the PUT), raise_at (where requests or the result
\* file raised, "none" if nowhere).  The result names the return value, the
\* number of PUT calls made, the send_result handed to save_keys_send_result
\* ("none": no outcome recorded for the key) and new_add_keys_set.
RaisePoints == {"none", "get", "put", "record"}

BalancerOut(result, puts, rec, new, got) ==
  [result |-> result, puts |-> puts, rec |-> rec, new |-> new, got |-> got]

send_balancer_worker(keys, get_ok, current_api_keys, put_ok, updated_api_keys, raise_at) ==
  LET new_add_keys_set == keys \ current_api_keys
      failed_to_add == new_add_keys_set \ updated_api_keys
  IN  IF raise_at = "get" THEN BalancerOut("exception", 0, NoRec, {}, FALSE)
      ELSE IF ~get_ok THEN BalancerOut("get_config_failed_not_200", 0, NoRec, {}, FALSE)
      ELSE IF new_add_keys_set = {} THEN BalancerOut("ok", 0, NoRec, {}, TRUE)
      ELSE IF raise_at = "put" THEN BalancerOut("exception", 1, NoRec, new_add_keys_set, TRUE)
      ELSE IF ~put_ok
        THEN BalancerOut("update_config_failed_not_200", 1, NoRec, new_add_keys_set, TRUE)
      ELSE IF raise_at = "record"
        THEN BalancerOut("exception", 1, NoRec, new_add_keys_set, TRUE)
      ELSE IF failed_to_add # {}
        THEN BalancerOut("update_failed", 1,
               [k \in Keys |-> IF k \in failed_to_add THEN "update_failed"
                               ELSE IF k \in new_add_keys_set THEN "ok" ELSE "none"],
               new_add_keys_set, TRUE)
      ELSE BalancerOut("ok", 1,
             [k \in Keys |-> IF k \in new_add_keys_set THEN "ok" ELSE "none"],
             new_add_keys_set, TRUE)

\* --------------------------------------------------- _send_gpt_load_worker
NumGroups == 2           \* configured gpt_load_group_names
GroupNames == 1..NumGroups
\* What one group of the loop meets: its id resolved and POST /keys/add-async
\* answered 200 with code 0 ("ok"), _get_gpt_load_group_id returned None
\* ("no_group_id"), the POST answered otherwise ("add_failed"), or requests.post
\* raised, a timeout for one ("post_raises").
GroupOutcomes == {"ok", "no_group_id", "add_failed", "post_raises"}
GptRec(outcome, groups) == [outcome |-> outcome, groups |-> groups]
NoGptRec == [k \in Keys |-> GptRec("none", 0)]

\* keys: the batch; outs: what each group meets, in the order of
\* gpt_load_group_names; raises: save_keys_send_result raises.  The result
\* names the return value, the send_result recorded, the number of failed
\* groups and, for each group, the keys POSTed to it ({}: no POST made).
send_gpt_load_worker(keys, outs, raises) ==
  LET raising == {g \in GroupNames : outs[g] = "post_raises"}
      stop == IF raising = {} THEN NumGroups + 1
              ELSE CHOOSE g \in raising : \A h \in raising : g <= h
      failed_groups == {g \in GroupNames : g < stop /\ outs[g] # "ok"}
      posted == [g \in GroupNames |->
                   IF g <= stop /\ outs[g] # "no_group_id" THEN keys ELSE {}]
  IN  IF raising # {} \/ raises
        THEN [result |-> "exception", rec |-> NoGptRec,
              fail |-> Cardinality(failed_groups), posted |-> posted]
      ELSE IF failed_groups = {}
        THEN [result |-> "ok",
              rec |-> [k \in Keys |-> IF k \in keys THEN GptRec("ok", 0)
                                      ELSE GptRec("none", 0)],
              fail |-> 0, posted |-> posted]
      ELSE [result |-> "partial_failure",
            rec |-> [k \in Keys |->
                       IF k \in keys
                         THEN GptRec("partial_failure", Cardinality(failed_groups))
                         ELSE GptRec("none", 0)],
            fail |-> Cardinality(failed_groups), posted |-> posted]

\* what a flush of `keys` can return, over every response of the sink
BalancerResults(keys) ==
  {send_balancer_worker(keys, get_ok, current_api_keys, put_ok, updated_api_keys,
                        raise_at).result :
     get_ok \in BOOLEAN, current_api_keys \in SUBSET Keys, put_ok \in BOOLEAN,
     updated_api_keys \in SUBSET Keys, raise_at \in RaisePoints}
GptLoadResults(keys) ==
  {send_gpt_load_worker(keys, outs, raises).result :
     outs \in [GroupNames -> GroupOutcomes], raises \in BOOLEAN}

\* ------------------------------------------------------ _batch_send_worker
\* a bug that clears the queue whatever the flush returned
AfterFlushAlways(result_code, pending) == Empty
\* if result_code == 'ok': checkpoint.wait_send_*.clear()
AfterFlush(result_code, pending) == IF result_code = "ok" THEN Empty ELSE pending

\* ------------------------------------------------- SyncUtils.__init__ state
SyncInit ==
  /\ saving_checkpoint = FALSE
  /\ balancer_enabled \in BOOLEAN
  /\ gpt_load_enabled \in BOOLEAN
  /\ shutdown_flag = FALSE
  /\ batch_timer = "armed"          \* _start_batch_sender() ran in __init__
  /\ queue = 1                      \* and submitted the first run
  /\ runs = 1
  /\ wait_send_balancer = Empty
  /\ wait_send_gpt_load = Empty
  /\ persisted = [balancer |-> {}, gpt_load |-> {}]

WorkerInit ==
  /\ wpc = [w \in Workers |-> "idle"]
  /\ wkeys = [w \in Workers |-> {}]
  /\ wres = [w \in Workers |-> ""]

HistInit == owed_b = {} /\ owed_g = {} /\ inflight_b = {} /\ inflight_g = {}

\* -------------------------------------------------------- add_keys_to_queue
\* while self.saving_checkpoint: time.sleep(0.5)   -- the test found it False
AddWait ==
  /\ pc = "a_wait"
  /\ ~saving_checkpoint
  /\ pc' = "a_set"
  /\ UNCHANGED <<syncVars, ret, akeys, aexc, adds, workerVars, histVars>>

\* self.saving_checkpoint = True
AddSet ==
  /\ pc = "a_set"
  /\ saving_checkpoint' = TRUE
  /\ pc' = "a_update_b"
  /\ UNCHANGED <<balancer_enabled, gpt_load_enabled, shutdown_flag, batch_timer, queue, runs,
                 wait_send_balancer, wait_send_gpt_load, persisted,
                 ret, akeys, aexc, adds, workerVars, histVars>>

AddUpdateBalancer ==
  /\ pc = "a_update_b"
  /\ wait_send_balancer' =
       IF balancer_enabled THEN SetUpdate(wait_send_balancer, akeys) ELSE wait_send_balancer
  /\ inflight_b' = IF balancer_enabled THEN Range(akeys) ELSE {}
  /\ pc' = "a_update_g"
  /\ UNCHANGED <<saving_checkpoint, balancer_enabled, gpt_load_enabled, shutdown_flag,
                 batch_timer, queue, runs, wait_send_gpt_load, persisted,
                 ret, akeys, aexc, adds, workerVars, owed_b, owed_g, inflight_g>>

AddUpdateGptLoad ==
  /\ pc = "a_update_g"
  /\ wait_send_gpt_load' =
       IF gpt_load_enabled THEN SetUpdate(wait_send_gpt_load, akeys) ELSE wait_send_gpt_load
  /\ inflight_g' = IF gpt_load_enabled THEN Range(akeys) ELSE {}
  /\ pc' = "a_save"
  /\ UNCHANGED <<saving_checkpoint, balancer_enabled, gpt_load_enabled, shutdown_flag,
                 batch_timer, queue, runs, wait_send_balancer, persisted,
                 ret, akeys, aexc, adds, workerVars, owed_b, owed_g, inflight_b>>

\* file_manager.save_checkpoint(checkpoint); it may raise (disk error)
AddSave ==
  /\ pc = "a_save"
  /\ \E written \in BOOLEAN :
       /\ persisted' = IF written THEN Snapshot ELSE persisted
       /\ aexc' = ~written
  /\ pc' = "a_release"
  /\ UNCHANGED <<saving_checkpoint, balancer_enabled, gpt_load_enabled, shutdown_flag,
                 batch_timer, queue, runs, wait_send_balancer, wait_send_gpt_load,
                 ret, akeys, adds, workerVars, histVars>>

\* finally: self.saving_checkpoint = False; then the call returns (or the
\* exception of save_checkpoint goes to the caller, which logs it)
AddRelease ==
  /\ pc = "a_release"
  /\ saving_checkpoint' = FALSE
  /\ pc' = ret
  /\ akeys' = <<>>
  /\ aexc' = FALSE
  /\ owed_b' = IF ~aexc THEN owed_b \cup inflight_b ELSE owed_b
  /\ owed_g' = IF ~aexc THEN owed_g \cup inflight_g ELSE owed_g
  /\ inflight_b' = {}
  /\ inflight_g' = {}
  /\ UNCHANGED <<balancer_enabled, gpt_load_enabled, shutdown_flag, batch_timer, queue, runs,
                 wait_send_balancer, wait_send_gpt_load, persisted, ret, adds, workerVars>>

AddSteps ==
  \/ AddWait \/ AddSet \/ AddUpdateBalancer \/ AddUpdateGptLoad \/ AddSave \/ AddRelease

\* --------------------------------------------------------------- the timer
\* _start_batch_sender, run by __init__ and then by each Timer expiry
start_batch_sender ==
  /\ batch_timer = "armed"
  /\ IF shutdown_flag
       THEN batch_timer' = "none" /\ queue' = queue /\ runs' = runs
       ELSE /\ runs < MaxRuns
            /\ queue' = queue + 1
            /\ runs' = runs + 1
            /\ batch_timer' = "armed"
  /\ UNCHANGED <<saving_checkpoint, balancer_enabled, gpt_load_enabled, shutdown_flag,
                 wait_send_balancer, wait_send_gpt_load, persisted,
                 scanVars, workerVars, histVars>>

\* ------------------------------------------------------ _batch_send_worker
WorkerStart(w) ==
  /\ wpc[w] = "idle"
  /\ queue > 0
  /\ queue' = queue - 1
  /\ wpc' = [wpc EXCEPT ![w] = "wait"]
  /\ UNCHANGED <<saving_checkpoint, balancer_enabled, gpt_load_enabled, shutdown_flag,
                 batch_timer, runs, wait_send_balancer, wait_send_gpt_load, persisted,
                 scanVars, wkeys, wres, histVars>>

\* while self.saving_checkpoint: time.sleep(0.5)   -- the test found it False
WorkerWait(w) ==
  /\ wpc[w] = "wait"
  /\ ~saving_checkpoint
  /\ wpc' = [wpc EXCEPT ![w] = "set"]
  /\ UNCHANGED <<syncVars, scanVars, wkeys, wres, histVars>>

\* self.saving_checkpoint = True
WorkerSet(w) ==
  /\ wpc[w] = "set"
  /\ saving_checkpoint' = TRUE
  /\ wpc' = [wpc EXCEPT ![w] = "balancer"]
  /\ UNCHANGED <<balancer_enabled, gpt_load_enabled, shutdown_flag, batch_timer, queue, runs,
                 wait_send_balancer, wait_send_gpt_load, persisted,
                 scanVars, wkeys, wres, histVars>>

\* if checkpoint.wait_send_balancer and self.balancer_enabled:
\*     balancer_keys = list(checkpoint.wait_send_balancer)
\*     result_code = self._send_balancer_worker(balancer_keys)
\* The send reads no shared state after the list was taken, so the step ends
\* when the result is in hand; the clear below is a later step.
WorkerBalancerSend(w) ==
  /\ wpc[w] = "balancer"
  /\ IF PendingSet(wait_send_balancer) # {} /\ balancer_enabled
       THEN LET balancer_keys == PendingSet(wait_send_balancer)
            IN  \E result_code \in BalancerResults(balancer_keys) :
                  /\ wkeys' = [wkeys EXCEPT ![w] = balancer_keys]
                  /\ wres' = [wres EXCEPT ![w] = result_code]
                  /\ owed_b' = IF result_code = "ok" THEN owed_b \ balancer_keys ELSE owed_b
                  /\ inflight_b' =
                       IF result_code = "ok" THEN inflight_b \ balancer_keys ELSE inflight_b
                  /\ wpc' = [wpc EXCEPT ![w] = "balancer_done"]
       ELSE /\ wpc' = [wpc EXCEPT ![w] = "gpt_load"]
            /\ UNCHANGED <<wkeys, wres, owed_b, inflight_b>>
  /\ UNCHANGED <<syncVars, scanVars, owed_g, inflight_g>>

\* a bug that lets an exception of the balancer flush end the run
AfterBalancerEscaping(result_code) ==
  IF result_code = "exception" THEN "release" ELSE "gpt_load"
\* _send_balancer_worker catches what it raises and returns a code: whatever
\* the code, the run goes on to the gpt_load sink
AfterBalancer(result_code) == "gpt_load"

\* if result_code == 'ok': checkpoint.wait_send_balancer.clear()
WorkerBalancerDone(w) ==
  /\ wpc[w] = "balancer_done"
  /\ wait_send_balancer' = AfterFlush(wres[w], wait_send_balancer)
  /\ wpc' = [wpc EXCEPT ![w] = AfterBalancer(wres[w])]
  /\ wkeys' = [wkeys EXCEPT ![w] = {}]
  /\ UNCHANGED <<saving_checkpoint, balancer_enabled, gpt_load_enabled, shutdown_flag,
                 batch_timer, queue, runs, wait_send_gpt_load, persisted, scanVars, wres,
                 histVars>>

\* if checkpoint.wait_send_gpt_load and self.gpt_load_enabled:
\*     gpt_load_keys = list(checkpoint.wait_send_gpt_load)
\*     result_code = self._send_gpt_load_worker(gpt_load_keys)
WorkerGptSend(w) ==
  /\ wpc[w] = "gpt_load"
  /\ IF PendingSet(wait_send_gpt_load) # {} /\ gpt_load_enabled
       THEN LET gpt_load_keys == PendingSet(wait_send_gpt_load)
            IN  \E result_code \in GptLoadResults(gpt_load_keys) :
                  /\ wkeys' = [wkeys EXCEPT ![w] = gpt_load_keys]
                  /\ wres' = [wres EXCEPT ![w] = result_code]
                  /\ owed_g' = IF result_code = "ok" THEN owed_g \ gpt_load_keys ELSE owed_g
                  /\ inflight_g' =
                       IF result_code = "ok" THEN inflight_g \ gpt_load_keys ELSE inflight_g
                  /\ wpc' = [wpc EXCEPT ![w] = "gpt_load_done"]
       ELSE /\ wpc' = [wpc EXCEPT ![w] = "save"]
            /\ wres' = [wres EXCEPT ![w] = ""]
            /\ UNCHANGED <<wkeys, owed_g, inflight_g>>
  /\ UNCHANGED <<syncVars, scanVars, owed_b, inflight_b>>

\* if result_code == 'ok': checkpoint.wait_send_gpt_load.clear()
WorkerGptDone(w) ==
  /\ wpc[w] = "gpt_load_done"
  /\ wait_send_gpt_load' = AfterFlush(wres[w], wait_send_gpt_load)
  /\ wpc' = [wpc EXCEPT ![w] = "save"]
  /\ wkeys' = [wkeys EXCEPT ![w] = {}]
  /\ wres' = [wres EXCEPT ![w] = ""]
  /\ UNCHANGED <<saving_checkpoint, balancer_enabled, gpt_load_enabled, shutdown_flag,
                 batch_timer, queue, runs, wait_send_balancer, persisted, scanVars, histVars>>

\* file_manager.save_checkpoint(checkpoint); an exception is caught and logged
WorkerSave(w) ==
  /\ wpc[w] = "save"
  /\ \E written \in BOOLEAN : persisted' = IF written THEN Snapshot ELSE persisted
  /\ wpc' = [wpc EXCEPT ![w] = "release"]
  /\ UNCHANGED <<saving_checkpoint, balancer_enabled, gpt_load_enabled, shutdown_flag,
                 batch_timer, queue, runs, wait_send_balancer, wait_send_gpt_load,
                 scanVars, wkeys, wres, histVars>>

\* finally: self.saving_checkpoint = False
WorkerRelease(w) ==
  /\ wpc[w] = "release"
  /\ saving_checkpoint' = FALSE
  /\ wpc' = [wpc EXCEPT ![w] = "idle"]
  /\ UNCHANGED <<balancer_enabled, gpt_load_enabled, shutdown_flag, batch_timer, queue, runs,
                 wait_send_balancer, wait_send_gpt_load, persisted,
                 scanVars, wkeys, wres, histVars>>

batch_send_worker(w) ==
  \/ WorkerStart(w) \/ WorkerWait(w) \/ WorkerSet(w)
  \/ WorkerBalancerSend(w) \/ WorkerBalancerDone(w)
  \/ WorkerGptSend(w) \/ WorkerGptDone(w)
  \/ WorkerSave(w) \/ WorkerRelease(w)

\* ------------------------------------- the scan thread, as the pool sees it
\* process_item: sync_utils.add_keys_to_queue(valid_keys); `if not keys: return`
AddCall ==
  /\ pc = "main"
  /\ \E keys \in KeyLists :
       /\ akeys' = keys
       /\ pc' = IF keys = <<>> THEN "main" ELSE "a_wait"
  /\ ret' = "main"
  /\ adds < MaxAdds
  /\ adds' = adds + 1
  /\ UNCHANGED <<syncVars, aexc, workerVars, histVars>>

\* main: file_manager.save_checkpoint(checkpoint), made without the flag
MainSave ==
  /\ pc = "main"
  /\ persisted' = Snapshot
  /\ UNCHANGED <<saving_checkpoint, balancer_enabled, gpt_load_enabled, shutdown_flag,
                 batch_timer, queue, runs, wait_send_balancer, wait_send_gpt_load,
                 scanVars, workerVars, histVars>>

\* ------------------------------------------------------ items and skip_stats
MaxTime == 4             \* clock values 1..MaxTime; 0 stands for None
DateRangeDays == 1       \* Config.DATE_RANGE_DAYS, in clock units
MaxPathLen == 2
Shas == {"s1", "s2"}
PathChars == {"D", "d", "o"}
Paths == UNION {[1..n -> PathChars] : n \in 1..MaxPathLen}
FILE_PATH_BLACKLIST == {<<"d", "o">>}     \* Config.FILE_PATH_BLACKLIST
Items == [pushed_at : 0..MaxTime, sha : Shas, path : Paths]
NoItem == [pushed_at |-> 0, sha |-> "", path |-> <<>>]
Reasons == {"time_filter", "sha_duplicate", "age_filter", "doc_filter"}
ZeroStats == [r \in Reasons |-> 0]
NoResult == [skip |-> FALSE, reason |-> "none"]

MainQuiet ==
  /\ search_queries = <<>> /\ processed_queries = {} /\ scanned_shas = {}
  /\ last_scan_time = 0 /\ now = 1 /\ loop_count = 0 /\ qi = 0 /\ query_count = 0
  /\ n_items = 0 /\ item_index = 0 /\ item = NoItem
  /\ skip_stats = ZeroStats /\ skip_result = NoResult
  /\ pass_done = {} /\ searched = {} /\ counted = {} /\ stats_before = ZeroStats

EnqQuiet ==
  /\ last_keys = <<>> /\ last_b = Empty /\ last_g = Empty
  /\ before_b = Empty /\ before_g = Empty /\ rep = FALSE /\ start_b = Empty

NoIn == [get_ok |-> FALSE, current_api_keys |-> {}, put_ok |-> FALSE,
         updated_api_keys |-> {}, raise_at |-> "none"]
NoOut == BalancerOut("", 0, NoRec, {}, FALSE)
NoCall == [time |-> 0, fetched |-> FALSE, result |-> ""]
\* self.group_id_cache = {}; self.group_id_cache_time = {}
CacheQuiet ==
  /\ group_id_cache = << >> /\ group_id_cache_time = << >>
  /\ current_time = 0 /\ ticks = 0 /\ watched = 1
  /\ cache_hist = [prev |-> NoCall, cur |-> NoCall, calls |-> 0]
TriageQuiet == tstage = "off" /\ tin = << >> /\ tout = << >>
NormQuiet == nstage = "off" /\ nin = << >> /\ nout = << >>
ShutQuiet == tpc = "idle" /\ pool_shutdown = FALSE
FlushQuiet ==
  /\ fstage = "off" /\ fkind = "" /\ fkeys = {} /\ fin = NoIn /\ fout = NoOut
  /\ CacheQuiet /\ TriageQuiet /\ NormQuiet /\ ShutQuiet

Init ==
  /\ SyncInit /\ WorkerInit /\ HistInit /\ EnqQuiet /\ FlushQuiet /\ MainQuiet
  /\ pc = "main" /\ ret = "main" /\ akeys = <<>> /\ aexc = FALSE /\ adds = 0

Next ==
  \/ AddCall /\ UNCHANGED <<enqVars, flushVars, mainVars>>
  \/ MainSave /\ UNCHANGED <<enqVars, flushVars, mainVars>>
  \/ AddSteps /\ UNCHANGED <<enqVars, flushVars, mainVars>>
  \/ start_batch_sender /\ UNCHANGED <<enqVars, flushVars, mainVars>>
  \/ \E w \in Workers : batch_send_worker(w) /\ UNCHANGED <<enqVars, flushVars, mainVars>>

\* the scan thread and the flush pool, interleaved
Spec == Init /\ [][Next]_vars

\* ------------------------------------------- the timer that never stops
MaxQueue == 1            \* runs submitted to the executor and not yet started

\* threading.Timer(self.batch_interval, self._start_batch_sender): each expiry
\* submits one more _batch_send_worker run and arms the next timer
TimerFires ==
  /\ batch_timer = "armed"
  /\ ~shutdown_flag
  /\ queue < MaxQueue
  /\ queue' = queue + 1
  /\ UNCHANGED <<saving_checkpoint, balancer_enabled, gpt_load_enabled, shutdown_flag,
                 batch_timer, runs, wait_send_balancer, wait_send_gpt_load, persisted,
                 scanVars, workerVars, histVars>>

\* both sinks configured; the scan thread has one add_keys_to_queue call of
\* the model's MaxAdds left to make
InitLive ==
  /\ SyncInit /\ balancer_enabled /\ gpt_load_enabled
  /\ WorkerInit /\ HistInit /\ EnqQuiet /\ FlushQuiet /\ MainQuiet
  /\ pc = "main" /\ ret = "main" /\ akeys = <<>> /\ aexc = FALSE /\ adds = MaxAdds - 1

ScanStep == (AddCall \/ AddSteps) /\ UNCHANGED <<enqVars, flushVars, mainVars>>
PoolStep(w) == batch_send_worker(w) /\ UNCHANGED <<enqVars, flushVars, mainVars>>
TimerStep == TimerFires /\ UNCHANGED <<enqVars, flushVars, mainVars>>

NextLive == ScanStep \/ TimerStep \/ \E w \in Workers : PoolStep(w)

\* Every thread that can take a step keeps running: the scan thread, each
\* pool worker and the timer.  A thread in `while self.saving_checkpoint:
\* time.sleep(0.5)` goes on only by a test that finds the flag False.
SpecLive ==
  /\ InitLive /\ [][NextLive]_vars
  /\ WF_vars(ScanStep) /\ WF_vars(TimerStep)
  /\ \A w \in Workers : WF_vars(PoolStep(w))

\* ------------------------------------------------ shutdown and the timer
\* _start_batch_sender on the timer thread, statement by statement, against
\* shutdown() on the main thread.  batch_timer is the state of the Timer that
\* self.batch_timer refers to: "armed" (started, waiting for its interval),
\* "fired" (its callback is running or over), "created" (constructed, not
\* yet started), "cancelled".

\* the Timer expires and its thread calls self._start_batch_sender
TimerExpire ==
  /\ batch_timer = "armed" /\ tpc = "idle"
  /\ runs < MaxRuns
  /\ batch_timer' = "fired"
  /\ tpc' = "check"
  /\ UNCHANGED <<saving_checkpoint, balancer_enabled, gpt_load_enabled, shutdown_flag,
                 queue, runs, wait_send_balancer, wait_send_gpt_load, persisted,
                 scanVars, workerVars, histVars, pool_shutdown>>

\* if self.shutdown_flag: return
TimerCheck ==
  /\ tpc = "check"
  /\ tpc' = IF shutdown_flag THEN "idle" ELSE "submit"
  /\ UNCHANGED <<syncVars, scanVars, workerVars, histVars, pool_shutdown>>

\* self.executor.submit(self._batch_send_worker); after executor.shutdown
\* submit raises RuntimeError and the timer thread ends
TimerSubmit ==
  /\ tpc = "submit"
  /\ IF pool_shutdown
       THEN tpc' = "idle" /\ UNCHANGED <<queue, runs>>
       ELSE tpc' = "create" /\ queue' = queue + 1 /\ runs' = runs + 1
  /\ UNCHANGED <<saving_checkpoint, balancer_enabled, gpt_load_enabled, shutdown_flag,
                 batch_timer, wait_send_balancer, wait_send_gpt_load, persisted,
                 scanVars, workerVars, histVars, pool_shutdown>>

\* self.batch_timer = threading.Timer(self.batch_interval, self._start_batch_sender)
TimerCreate ==
  /\ tpc = "create"
  /\ batch_timer' = "created"
  /\ tpc' = "start"
  /\ UNCHANGED <<saving_checkpoint, balancer_enabled, gpt_load_enabled, shutdown_flag,
                 queue, runs, wait_send_balancer, wait_send_gpt_load, persisted,
                 scanVars, workerVars, histVars, pool_shutdown>>

\* self.batch_timer.start(): a Timer cancelled before its start never fires
TimerStart ==
  /\ tpc = "start"
  /\ batch_timer' = IF batch_timer = "created" THEN "armed" ELSE batch_timer
  /\ tpc' = "idle"
  /\ UNCHANGED <<saving_checkpoint, balancer_enabled, gpt_load_enabled, shutdown_flag,
                 queue, runs, wait_send_balancer, wait_send_gpt_load, persisted,
                 scanVars, workerVars, histVars, pool_shutdown>>

TimerThread == TimerExpire \/ TimerCheck \/ TimerSubmit \/ TimerCreate \/ TimerStart

\* main: except KeyboardInterrupt: sync_utils.shutdown()
\* self.shutdown_flag = True
ShutdownFlag ==
  /\ pc = "main"
  /\ shutdown_flag' = TRUE
  /\ pc' = "sd_cancel"
  /\ UNCHANGED <<saving_checkpoint, balancer_enabled, gpt_load_enabled,
                 batch_timer, queue, runs, wait_send_balancer, wait_send_gpt_load, persisted,
                 ret, akeys, aexc, adds, workerVars, histVars, shutVars>>

\* if self.batch_timer: self.batch_timer.cancel() -- no effect on a Timer
\* whose callback has begun
ShutdownCancel ==
  /\ pc = "sd_cancel"
  /\ batch_timer' = IF batch_timer \in {"armed", "created"} THEN "cancelled" ELSE batch_timer
  /\ pc' = "sd_pool"
  /\ UNCHANGED <<saving_checkpoint, balancer_enabled, gpt_load_enabled, shutdown_flag,
                 queue, runs, wait_send_balancer, wait_send_gpt_load, persisted,
                 ret, akeys, aexc, adds, workerVars, histVars, shutVars>>

\* self.executor.shutdown(wait=True): no further submit is accepted ...
ShutdownPool ==
  /\ pc = "sd_pool"
  /\ pool_shutdown' = TRUE
  /\ pc' = "sd_join"
  /\ UNCHANGED <<syncVars, ret, akeys, aexc, adds, workerVars, histVars, tpc>>

\* ... and the call returns when the runs submitted before are over; main
\* then leaves its loop
ShutdownJoin ==
  /\ pc = "sd_join"
  /\ queue = 0 /\ \A w \in Workers : wpc[w] = "idle"
  /\ pc' = "exited"
  /\ UNCHANGED <<syncVars, ret, akeys, aexc, adds, workerVars, histVars, shutVars>>

shutdown == ShutdownFlag \/ ShutdownCancel \/ ShutdownPool \/ ShutdownJoin

InitShutdown ==
  /\ SyncInit /\ balancer_enabled /\ gpt_load_enabled
  /\ WorkerInit /\ HistInit /\ EnqQuiet /\ MainQuiet
  /\ fstage = "off" /\ fkind = "" /\ fkeys = {} /\ fin = NoIn /\ fout = NoOut
  /\ CacheQuiet /\ TriageQuiet /\ NormQuiet /\ ShutQuiet
  /\ pc = "main" /\ ret = "main" /\ akeys = <<>> /\ aexc = FALSE /\ adds = MaxAdds - 1

NextShutdown ==
  \/ AddCall /\ UNCHANGED <<enqVars, flushVars, mainVars>>
  \/ AddSteps /\ UNCHANGED <<enqVars, flushVars, mainVars>>
  \/ TimerThread /\ UNCHANGED <<enqVars, fstage, fkind, fkeys, fin, fout, cacheVars,
                                triageVars, normVars, mainVars>>
  \/ shutdown /\ UNCHANGED <<enqVars, fstage, fkind, fkeys, fin, fout, cacheVars,
                             triageVars, normVars, mainVars>>
  \/ \E w \in Workers : batch_send_worker(w) /\ UNCHANGED <<enqVars, flushVars, mainVars>>

\* an interrupt ends the scan while the timer and the pool are running
SpecShutdown == InitShutdown /\ [][NextShutdown]_vars

\* ---------------------------------------------- add_keys_to_queue, repeated
\* The scan thread calls add_keys_to_queue again and again; no flush runs.
MaxEnqueueLen == 2       \* longest key list of these calls
EnqueueLists == UNION {[1..n -> Keys] : n \in 1..MaxEnqueueLen}
Size(p) == LET S[K \in SUBSET Keys] ==
                 IF K = {} THEN 0
                 ELSE LET k == CHOOSE x \in K : TRUE IN p[k] + S[K \ {k}]
           IN  S[Keys]

InitEnqueue ==
  /\ saving_checkpoint = FALSE
  /\ balancer_enabled \in BOOLEAN
  /\ gpt_load_enabled \in BOOLEAN
  /\ shutdown_flag = FALSE /\ batch_timer = "armed" /\ queue = 1 /\ runs = 1
  \* a fresh checkpoint, or one loaded with keys still pending
  /\ \E B \in SUBSET Keys : wait_send_balancer = [k \in Keys |-> IF k \in B THEN 1 ELSE 0]
  /\ \E G \in SUBSET Keys : wait_send_gpt_load = [k \in Keys |-> IF k \in G THEN 1 ELSE 0]
  /\ persisted = Snapshot
  /\ WorkerInit /\ HistInit /\ FlushQuiet /\ MainQuiet
  /\ last_keys = <<>> /\ last_b = wait_send_balancer /\ last_g = wait_send_gpt_load
  /\ before_b = wait_send_balancer /\ before_g = wait_send_gpt_load
  /\ rep = FALSE /\ start_b = wait_send_balancer
  /\ pc = "main" /\ ret = "main" /\ akeys = <<>> /\ aexc = FALSE /\ adds = 0

EnqueueCall ==
  /\ pc = "main"
  /\ adds < MaxAdds
  /\ \E keys \in EnqueueLists : akeys' = keys
  /\ pc' = "a_wait"
  /\ ret' = "main"
  /\ adds' = adds + 1
  /\ UNCHANGED <<syncVars, aexc, workerVars, histVars, enqVars, flushVars, mainVars>>

EnqueueBody ==
  /\ AddWait \/ AddSet \/ AddUpdateBalancer \/ AddUpdateGptLoad \/ AddSave
  /\ UNCHANGED <<enqVars, flushVars, mainVars>>

EnqueueReturn ==
  /\ AddRelease
  /\ rep' = (akeys = last_keys)
  /\ last_keys' = akeys
  /\ before_b' = last_b /\ before_g' = last_g
  /\ last_b' = wait_send_balancer /\ last_g' = wait_send_gpt_load
  /\ UNCHANGED <<start_b, flushVars, mainVars>>

NextEnqueue == EnqueueCall \/ EnqueueBody \/ EnqueueReturn

SpecEnqueue == InitEnqueue /\ [][NextEnqueue]_vars

\* --------------------------------------------------- one flush, on its own
\* A batch of pending keys and every combination of responses of the sink.
InitFlush ==
  /\ SyncInit /\ WorkerInit /\ HistInit /\ EnqQuiet /\ MainQuiet
  /\ pc = "main" /\ ret = "main" /\ akeys = <<>> /\ aexc = FALSE /\ adds = 0
  /\ fstage = "ready" /\ fkind = "" /\ fin = NoIn /\ fout = NoOut
  /\ fkeys \in (SUBSET Keys) \ {{}}
  /\ CacheQuiet /\ TriageQuiet /\ NormQuiet /\ ShutQuiet

FlushBalancer ==
  /\ fstage = "ready"
  /\ \E get_ok \in BOOLEAN, current_api_keys \in SUBSET Keys, put_ok \in BOOLEAN,
        updated_api_keys \in SUBSET Keys, raise_at \in RaisePoints :
       /\ fin' = [get_ok |-> get_ok, current_api_keys |-> current_api_keys,
                  put_ok |-> put_ok, updated_api_keys |-> updated_api_keys,
                  raise_at |-> raise_at]
       /\ fout' = send_balancer_worker(fkeys, get_ok, current_api_keys, put_ok,
                                       updated_api_keys, raise_at)
  /\ fstage' = "done"
  /\ fkind' = "balancer"
  /\ UNCHANGED <<syncVars, scanVars, workerVars, histVars, enqVars, fkeys, cacheVars, triageVars,
                 normVars, shutVars,
                 mainVars>>

\* one call of _send_gpt_load_worker(fkeys)
FlushGptLoad ==
  /\ fstage = "ready"
  /\ \E outs \in [GroupNames -> GroupOutcomes], raises \in BOOLEAN :
       /\ fin' = [outs |-> outs, raises |-> raises]
       /\ fout' = send_gpt_load_worker(fkeys, outs, raises)
  /\ fstage' = "done"
  /\ fkind' = "gpt_load"
  /\ UNCHANGED <<syncVars, scanVars, workerVars, histVars, enqVars, fkeys, cacheVars, triageVars,
                 normVars, shutVars,
                 mainVars>>

NextFlush == FlushBalancer \/ FlushGptLoad

SpecFlush == InitFlush /\ [][NextFlush]_vars

\* -------------------------------------------------- _get_gpt_load_group_id
group_id_cache_ttl == 900     \* self.group_id_cache_ttl = 15 * 60 (seconds)
MaxTicks == 2                 \* how often the clock moves on
CacheSteps == {1, group_id_cache_ttl - 1, group_id_cache_ttl}
GroupIds == {"id1", "id2"}    \* the ids the sink may list for a name
FetchStatus == {"ok", "not_200", "bad_code", "raise"}

\* a bug that never lets an entry expire
cache_hit_no_expiry(group_name, t) ==
  group_name \in DOMAIN group_id_cache /\ group_name \in DOMAIN group_id_cache_time
\* group_name in self.group_id_cache and group_name in self.group_id_cache_time
\* and current_time - self.group_id_cache_time[group_name] < self.group_id_cache_ttl
cache_hit(group_name, t) ==
  /\ group_name \in DOMAIN group_id_cache
  /\ group_name \in DOMAIN group_id_cache_time
  /\ t - group_id_cache_time[group_name] < group_id_cache_ttl

\* d[key] = value
Put(d, key, value) == [m \in DOMAIN d \cup {key} |-> IF m = key THEN value ELSE d[m]]

InitCache ==
  /\ SyncInit /\ balancer_enabled /\ gpt_load_enabled /\ WorkerInit /\ HistInit /\ EnqQuiet /\ MainQuiet
  /\ pc = "main" /\ ret = "main" /\ akeys = <<>> /\ aexc = FALSE /\ adds = 0
  /\ fstage = "off" /\ fkind = "" /\ fkeys = {} /\ fin = NoIn /\ fout = NoOut
  /\ group_id_cache = << >> /\ group_id_cache_time = << >>
  /\ current_time = 0 /\ ticks = 0
  /\ watched \in GroupNames
  /\ cache_hist = [prev |-> NoCall, cur |-> NoCall, calls |-> 0]
  /\ TriageQuiet /\ NormQuiet /\ ShutQuiet

\* One call of _get_gpt_load_group_id(group_name).  status is how GET /groups
\* ends (200 with code 0, another status, another code, an exception) and
\* listed is the id the list gives for the name ("absent": not listed).
GetGroupId ==
  \E group_name \in GroupNames :
    LET hit == cache_hit(group_name, current_time)
        Answer(found, result) ==
          /\ group_id_cache' =
               IF found THEN Put(group_id_cache, group_name, result) ELSE group_id_cache
          /\ group_id_cache_time' =
               IF found THEN Put(group_id_cache_time, group_name, current_time)
               ELSE group_id_cache_time
          /\ cache_hist' =
               IF group_name = watched
                 THEN [prev |-> cache_hist.cur,
                       cur |-> [time |-> current_time, fetched |-> ~hit, result |-> result],
                       calls |-> IF cache_hist.calls < 2 THEN cache_hist.calls + 1 ELSE 2]
                 ELSE cache_hist
    IN  /\ IF hit
             THEN Answer(FALSE, group_id_cache[group_name])
             ELSE \E result \in {IF status = "ok" /\ listed # "absent" THEN listed ELSE "None" :
                                   status \in FetchStatus, listed \in GroupIds \cup {"absent"}} :
                    Answer(result # "None", result)
        /\ UNCHANGED <<syncVars, scanVars, workerVars, histVars, enqVars,
                       fstage, fkind, fkeys, fin, fout, current_time, ticks, watched,
                       triageVars, normVars, shutVars,
                       mainVars>>

\* time.time() moves on between calls
CacheTick ==
  /\ ticks < MaxTicks
  /\ ticks' = ticks + 1
  /\ \E d \in CacheSteps : current_time' = current_time + d
  /\ UNCHANGED <<syncVars, scanVars, workerVars, histVars, enqVars,
                 fstage, fkind, fkeys, fin, fout, group_id_cache, group_id_cache_time,
                 triageVars, normVars, shutVars,
                 watched, cache_hist, mainVars>>

NextCache == GetGroupId \/ CacheTick

SpecCache == InitCache /\ [][NextCache]_vars

\* ========================================================= hajimi_king.py
\* ---------------------------------------------------------- normalize_query
\* A query is a sequence of symbols: " " (whitespace), "\"" (a double quote),
\* "L", "F", "P" (the literals language:, filename:, path:, each one symbol)
\* and the letters "a", "b".  Ord gives the order Python compares them in.
Ord(c) ==
  CASE c = " " -> 32 [] c = "\"" -> 34 [] c = "a" -> 97 [] c = "b" -> 98
    [] c = "F" -> 102 [] c = "L" -> 108 [] c = "P" -> 112

\* " ".join(query.split()): runs of whitespace become one space, ends stripped
RECURSIVE SplitJoin(_, _, _)
SplitJoin(q, i, out) ==
  IF i > Len(q) THEN out
  ELSE IF q[i] = " "
    THEN SplitJoin(q, i + 1, out)
    ELSE SplitJoin(q, i + 1,
           IF i > 1 /\ q[i - 1] = " " /\ out # <<>> THEN out \o <<" ", q[i]>>
           ELSE Append(out, q[i]))

\* query.find('"', i + 1): the index of the next quote, 0 when there is none
FindQuote(q, from) ==
  LET hits == {j \in from..Len(q) : q[j] = "\""}
  IN  IF hits = {} THEN 0 ELSE CHOOSE j \in hits : \A h \in hits : j <= h

\* the index after the run of non-space symbols that starts at i
RECURSIVE RunEnd(_, _)
RunEnd(q, i) == IF i <= Len(q) /\ q[i] # " " THEN RunEnd(q, i + 1) ELSE i

\* the while loop that cuts the query into parts
RECURSIVE Parts(_, _, _)
Parts(q, i, parts) ==
  IF i > Len(q) THEN parts
  ELSE IF q[i] = "\""
    THEN LET end_quote == FindQuote(q, i + 1)
         IN  IF end_quote # 0
               THEN Parts(q, end_quote + 1, Append(parts, SubSeq(q, i, end_quote)))
               ELSE Parts(q, i + 1, Append(parts, <<q[i]>>))
  ELSE IF q[i] = " " THEN Parts(q, i + 1, parts)
  ELSE Parts(q, RunEnd(q, i), Append(parts, SubSeq(q, i, RunEnd(q, i) - 1)))

\* Python's < on strings
RECURSIVE StrLess(_, _)
StrLess(x, y) ==
  IF x = <<>> THEN y # <<>>
  ELSE IF y = <<>> THEN FALSE
  ELSE IF Ord(Head(x)) # Ord(Head(y)) THEN Ord(Head(x)) < Ord(Head(y))
  ELSE StrLess(Tail(x), Tail(y))

\* sorted(list): a stable insertion sort
RECURSIVE Insert(_, _)
Insert(sorted, x) ==
  IF sorted = <<>> THEN <<x>>
  ELSE IF StrLess(x, Head(sorted)) THEN <<x>> \o sorted
  ELSE <<Head(sorted)>> \o Insert(Tail(sorted), x)
RECURSIVE Sorted(_)
Sorted(s) == IF s = <<>> THEN <<>> ELSE Insert(Sorted(SubSeq(s, 1, Len(s) - 1)), s[Len(s)])

IsQuoted(part) == part[1] = "\"" /\ part[Len(part)] = "\""
IsLanguage(part) == ~IsQuoted(part) /\ part[1] = "L"
IsFilename(part) == ~IsQuoted(part) /\ part[1] = "F"
IsPath(part) == ~IsQuoted(part) /\ part[1] = "P"
IsOther(part) == ~IsQuoted(part) /\ part[1] \notin {"L", "F", "P"}

\* " ".join(parts)
RECURSIVE Join(_)
Join(parts) ==
  IF parts = <<>> THEN <<>>
  ELSE IF Len(parts) = 1 THEN parts[1]
  ELSE parts[1] \o <<" ">> \o Join(Tail(parts))

\* a bug that keeps the parts in the order they were written
normalize_query_unsorted(query) == Join(Parts(SplitJoin(query, 1, <<>>), 1, <<>>))

normalize_query(query) ==
  LET parts == Parts(SplitJoin(query, 1, <<>>), 1, <<>>)
      quoted_strings == SelectSeq(parts, IsQuoted)
      language_parts == SelectSeq(parts, IsLanguage)
      filename_parts == SelectSeq(parts, IsFilename)
      path_parts == SelectSeq(parts, IsPath)
      other_parts == SelectSeq(parts, IsOther)
  IN  Join(Sorted(quoted_strings) \o Sorted(other_parts) \o Sorted(language_parts)
           \o Sorted(filename_parts) \o Sorted(path_parts))

\* The tokens a query is written from, each with the bucket it belongs to.
MaxTokens == 3
TokenPool ==
  {[bucket |-> "quoted", text |-> <<"\"", "a", "\"">>],
   [bucket |-> "quoted", text |-> <<"\"", "a", " ", "b", "\"">>],
   [bucket |-> "other", text |-> <<"a">>],
   [bucket |-> "other", text |-> <<"b">>],
   [bucket |-> "other", text |-> <<"a", "\"">>],
   [bucket |-> "language", text |-> <<"L", "a">>],
   [bucket |-> "language", text |-> <<"L", "b">>],
   [bucket |-> "filename", text |-> <<"F", "a">>],
   [bucket |-> "path", text |-> <<"P", "a">>]}
TokenLists == UNION {[1..n -> TokenPool] : n \in 0..MaxTokens}
Texts(tokens) == [i \in DOMAIN tokens |-> tokens[i].text]
Permuted(tokens, order) == [i \in DOMAIN tokens |-> tokens[order[i]]]

InitNormalize ==
  /\ SyncInit /\ balancer_enabled /\ gpt_load_enabled
  /\ WorkerInit /\ HistInit /\ EnqQuiet /\ MainQuiet
  /\ pc = "main" /\ ret = "main" /\ akeys = <<>> /\ aexc = FALSE /\ adds = 0
  /\ fstage = "off" /\ fkind = "" /\ fkeys = {} /\ fin = NoIn /\ fout = NoOut
  /\ CacheQuiet /\ TriageQuiet /\ ShutQuiet
  /\ nstage = "ready"
  /\ \E tokens \in TokenLists : \E order \in Permutations(DOMAIN tokens) :
       nin = [tokens |-> tokens, order |-> order]
  /\ nout = << >>

\* normalize_query of the tokens joined by spaces, as listed and as ordered
NormalizeCall ==
  /\ nstage = "ready"
  /\ nstage' = "done"
  /\ nout' = [listed |-> normalize_query(Join(Texts(nin.tokens))),
              ordered |-> normalize_query(Join(Texts(Permuted(nin.tokens, nin.order))))]
  /\ UNCHANGED <<syncVars, scanVars, workerVars, histVars, enqVars,
                 fstage, fkind, fkeys, fin, fout, cacheVars, triageVars, nin, shutVars,
                 mainVars>>

NextNormalize == NormalizeCall

SpecNormalize == InitNormalize /\ [][NextNormalize]_vars

\* ---------------------------------------------------------- should_skip_item
Lower(path) == [i \in DOMAIN path |-> IF path[i] = "D" THEN "d" ELSE path[i]]
\* token in lowercase_path
Contains(path, token) ==
  \E i \in 1..(Len(path) - Len(token) + 1) : SubSeq(path, i, i + Len(token) - 1) = token

Skip(reason) == [skip |-> TRUE, reason |-> reason]

\* a bug that looks the sha up before comparing the times
should_skip_item_sha_first(it, lst, shas, utcnow) ==
  IF it.sha \in shas THEN Skip("sha_duplicate")
  ELSE IF lst # 0 /\ it.pushed_at # 0 /\ it.pushed_at <= lst THEN Skip("time_filter")
  ELSE IF it.pushed_at # 0 /\ it.pushed_at < utcnow - DateRangeDays THEN Skip("age_filter")
  ELSE IF \E token \in FILE_PATH_BLACKLIST : Contains(Lower(it.path), token)
    THEN Skip("doc_filter")
  ELSE [skip |-> FALSE, reason |-> ""]

\* it: the item, lst: checkpoint.last_scan_time, shas: checkpoint.scanned_shas,
\* utcnow: datetime.utcnow().  The result names the counter to increment.
should_skip_item(it, lst, shas, utcnow) ==
  IF lst # 0 /\ it.pushed_at # 0 /\ it.pushed_at <= lst THEN Skip("time_filter")
  ELSE IF it.sha \in shas THEN Skip("sha_duplicate")
  ELSE IF it.pushed_at # 0 /\ it.pushed_at < utcnow - DateRangeDays THEN Skip("age_filter")
  ELSE IF \E token \in FILE_PATH_BLACKLIST : Contains(Lower(it.path), token)
    THEN Skip("doc_filter")
  ELSE [skip |-> FALSE, reason |-> ""]

\* skip_stats[reason] += 1
Counted(stats, result) ==
  IF result.skip THEN [stats EXCEPT ![result.reason] = @ + 1] ELSE stats

\* ------------------------------------------- should_skip_item, on its own
\* Any item against any checkpoint, after no skip or one skip of this pass.
MaxItems == 1            \* items one search returns
OneSkip(r) == [x \in Reasons |-> IF x = r THEN 1 ELSE 0]

InitSkip ==
  /\ SyncInit /\ WorkerInit /\ HistInit /\ EnqQuiet /\ FlushQuiet
  /\ balancer_enabled /\ gpt_load_enabled
  /\ pc = "skip_ready" /\ ret = "main" /\ akeys = <<>> /\ aexc = FALSE /\ adds = 0
  /\ search_queries = <<>> /\ processed_queries = {}
  /\ scanned_shas \in SUBSET Shas
  /\ last_scan_time \in 0..MaxTime
  /\ now \in 1..MaxTime
  /\ loop_count = 0 /\ qi = 0 /\ query_count = 0 /\ n_items = 0 /\ item_index = 0
  /\ item \in Items
  /\ skip_stats \in {ZeroStats} \cup {OneSkip(r) : r \in Reasons}
  /\ skip_result = NoResult
  /\ pass_done = {} /\ searched = {} /\ counted = {} /\ stats_before = skip_stats

SkipCall ==
  /\ pc = "skip_ready"
  /\ LET result == should_skip_item(item, last_scan_time, scanned_shas, now)
     IN  /\ skip_result' = result
         /\ skip_stats' = Counted(skip_stats, result)
  /\ stats_before' = skip_stats
  /\ item_index' = item_index + 1
  /\ pc' = "skip_done"
  /\ UNCHANGED <<syncVars, ret, akeys, aexc, adds, workerVars, histVars, enqVars, flushVars,
                 checkpointVars, search_queries, now, loop_count, qi, query_count, n_items,
                 item, pass_done, searched, counted>>

NextSkip == SkipCall

SpecSkip == InitSkip /\ [][NextSkip]_vars

\* ----------------------------------------------------------------- main
MaxLoops == 2            \* outer-loop iterations
MaxClock == 2            \* the clock of the scan loop runs from 1 to MaxClock
NumQueries == 2          \* length of the query list
QueryPool == {<<"a", " ", "L">>, <<"L", " ", " ", "a">>, <<"b">>}
QueryLists == [1..NumQueries -> QueryPool]
SaveEvery == 20          \* if item_index % 20 == 0

\* Checkpoint.add_processed_query, add_scanned_sha, update_scan_time
add_processed_query(queries, normalized_q) == queries \cup {normalized_q}
add_scanned_sha(shas, sha) == shas \cup {sha}
update_scan_time(clock) == clock

\* a bug that looks the query up as it was written
already_processed_raw(q) == q \in processed_queries
\* normalized_q = normalize_query(q); if normalized_q in checkpoint.processed_queries
already_processed(q) == normalize_query(q) \in processed_queries

\* what main still reads of an item once should_skip_item has answered
Kept(it) == [pushed_at |-> 0, sha |-> it.sha, path |-> <<>>]

\* The scan loop is taken with no sink configured (__init__ leaves both
\* *_enabled False): add_keys_to_queue then only saves the checkpoint.  The
\* queues under both threads are the subject of Spec.
InitMain ==
  /\ SyncInit /\ WorkerInit /\ HistInit /\ EnqQuiet /\ FlushQuiet
  /\ ~balancer_enabled /\ ~gpt_load_enabled
  /\ pc = "loop_start" /\ ret = "main" /\ akeys = <<>> /\ aexc = FALSE /\ adds = 0
  /\ search_queries \in QueryLists
  /\ processed_queries = {} /\ scanned_shas = {} /\ last_scan_time = 0
  /\ now = 1 /\ loop_count = 0 /\ qi = 0 /\ query_count = 0
  /\ n_items = 0 /\ item_index = 0 /\ item = NoItem
  /\ skip_stats = ZeroStats /\ skip_result = NoResult
  /\ pass_done = {} /\ searched = {} /\ counted = {} /\ stats_before = ZeroStats

\* while True: try: loop_count += 1; query_count = 0; reset_skip_stats()
MainLoopStart ==
  /\ pc = "loop_start"
  /\ loop_count < MaxLoops
  /\ loop_count' = loop_count + 1
  /\ query_count' = 0
  /\ skip_stats' = ZeroStats
  /\ qi' = 1
  /\ pass_done' = {} /\ searched' = {} /\ counted' = {}
  /\ pc' = "for_query"
  /\ UNCHANGED <<syncVars, ret, akeys, aexc, adds, workerVars, histVars, checkpointVars,
                 search_queries, now, n_items, item_index, item, skip_result, stats_before>>

\* The locals of an iteration that is over are written again before they are
\* read; the model clears them where the iteration ends.
Cleared ==
  /\ qi' = 0 /\ query_count' = 0 /\ n_items' = 0 /\ item_index' = 0 /\ item' = NoItem
  /\ skip_stats' = ZeroStats

\* for i, q in enumerate(search_queries, 1): ... continue
MainForQuery ==
  /\ pc = "for_query"
  /\ IF qi > Len(search_queries)
       THEN pc' = "sleep" /\ Cleared
       ELSE /\ IF already_processed(search_queries[qi])
                 THEN pc' = "for_query" /\ qi' = qi + 1
                 ELSE pc' = "search" /\ qi' = qi
            /\ UNCHANGED <<query_count, n_items, item_index, item, skip_stats>>
  /\ UNCHANGED <<syncVars, ret, akeys, aexc, adds, workerVars, histVars, checkpointVars,
                 search_queries, now, loop_count, skip_result, passVars>>

\* res = github_utils.search_for_keys(q): None (n = -1), or n items
MainSearch ==
  /\ pc = "search"
  /\ searched' = searched \cup {qi}
  /\ \E n \in -1..MaxItems :
       /\ n_items' = IF n > 0 THEN n ELSE 0
       /\ pc' = IF n > 0 THEN "for_item" ELSE "query_done"
  /\ item_index' = 0
  /\ UNCHANGED <<syncVars, ret, akeys, aexc, adds, workerVars, histVars, checkpointVars,
                 search_queries, now, loop_count, qi, query_count, item,
                 skip_stats, skip_result, pass_done, counted, stats_before>>

\* for item_index, item in enumerate(items, 1): the periodic save, then
\* should_skip_item(item, checkpoint)
MainForItem ==
  /\ pc = "for_item"
  /\ IF item_index = n_items
       THEN /\ pc' = "query_done"
            /\ item_index' = 0 /\ n_items' = 0
            /\ UNCHANGED <<item, skip_stats, persisted>>
       ELSE /\ item_index' = item_index + 1
            /\ n_items' = n_items
            /\ persisted' = IF (item_index + 1) % SaveEvery = 0 THEN Snapshot ELSE persisted
            /\ \E o \in {[result |-> should_skip_item(it, last_scan_time, scanned_shas, now),
                            kept |-> Kept(it)] : it \in Items} :
                 /\ skip_stats' = Counted(skip_stats, o.result)
                 /\ item' = IF o.result.skip THEN NoItem ELSE o.kept
                 /\ pc' = IF o.result.skip THEN "for_item" ELSE "process_item"
  /\ UNCHANGED <<saving_checkpoint, balancer_enabled, gpt_load_enabled, shutdown_flag,
                 batch_timer, queue, runs, wait_send_balancer, wait_send_gpt_load,
                 ret, akeys, aexc, adds, workerVars, histVars, checkpointVars,
                 search_queries, now, loop_count, qi, query_count,
                 skip_result, passVars>>

\* process_item(item): the fetch may give nothing; otherwise the keys found
\* valid are handed to sync_utils.add_keys_to_queue.  No other thread runs
\* here, so the call is taken in one step: flag set, both queues updated,
\* checkpoint saved (or the save raising, which process_item logs), flag reset.
MainProcessItem ==
  /\ pc = "process_item"
  /\ \E fetched \in BOOLEAN, valid_keys \in KeyLists, written \in BOOLEAN :
       /\ pc' = IF fetched THEN "after_item" ELSE "after_fetch_failed"
       /\ IF fetched /\ valid_keys # <<>>
         THEN LET b == IF balancer_enabled THEN SetUpdate(wait_send_balancer, valid_keys)
                       ELSE wait_send_balancer
                  g == IF gpt_load_enabled THEN SetUpdate(wait_send_gpt_load, valid_keys)
                       ELSE wait_send_gpt_load
              IN  /\ ~saving_checkpoint
                  /\ wait_send_balancer' = b
                  /\ wait_send_gpt_load' = g
                  /\ persisted' = IF written
                                    THEN [balancer |-> PendingSet(b), gpt_load |-> PendingSet(g)]
                                    ELSE persisted
                  /\ owed_b' = IF written /\ balancer_enabled
                                 THEN owed_b \cup Range(valid_keys) ELSE owed_b
                  /\ owed_g' = IF written /\ gpt_load_enabled
                                 THEN owed_g \cup Range(valid_keys) ELSE owed_g
         ELSE UNCHANGED <<wait_send_balancer, wait_send_gpt_load, persisted, owed_b, owed_g>>
  /\ UNCHANGED <<saving_checkpoint, balancer_enabled, gpt_load_enabled, shutdown_flag,
                 batch_timer, queue, runs, ret, akeys, aexc, adds, workerVars,
                 inflight_b, inflight_g, mainVars>>

\* checkpoint.add_scanned_sha(item.get("sha")), whichever return of
\* process_item was taken: `return 0, 0` of the failed fetch or a later one
MainAfterItem ==
  /\ pc \in {"after_item", "after_fetch_failed"}
  /\ scanned_shas' = add_scanned_sha(scanned_shas, item.sha)
  /\ item' = NoItem
  /\ pc' = "for_item"
  /\ UNCHANGED <<syncVars, ret, akeys, aexc, adds, workerVars, histVars,
                 processed_queries, last_scan_time,
                 search_queries, now, loop_count, qi, query_count, n_items, item_index,
                 skip_stats, skip_result, passVars>>

\* checkpoint.add_processed_query(normalized_q); query_count += 1
\* checkpoint.update_scan_time(); file_manager.save_checkpoint(checkpoint)
MainQueryDone ==
  /\ pc = "query_done"
  /\ processed_queries' =
       add_processed_query(processed_queries, normalize_query(search_queries[qi]))
  /\ pass_done' = pass_done \cup {normalize_query(search_queries[qi])}
  /\ counted' = counted \cup {qi}
  /\ query_count' = query_count + 1
  /\ last_scan_time' = update_scan_time(now)
  /\ persisted' = Snapshot
  /\ qi' = qi + 1
  /\ pc' = "for_query"
  /\ UNCHANGED <<saving_checkpoint, balancer_enabled, gpt_load_enabled, shutdown_flag,
                 batch_timer, queue, runs, wait_send_balancer, wait_send_gpt_load,
                 ret, akeys, aexc, adds, workerVars, histVars, scanned_shas,
                 search_queries, now, loop_count, n_items, item_index, item,
                 skip_stats, skip_result, searched, stats_before>>

\* time.sleep(10), then the next iteration
MainSleep ==
  /\ pc = "sleep"
  /\ pc' = "loop_start"
  /\ UNCHANGED <<syncVars, ret, akeys, aexc, adds, workerVars, histVars, mainVars>>

\* the positions of the scan thread inside the try block of one iteration
InIteration ==
  {"for_query", "search", "for_item", "process_item", "after_item", "after_fetch_failed",
   "query_done", "sleep"}

\* a bug that lets the exception leave the loop
OnExceptionEscaping == "exited"
\* except Exception as e: logger.error(...), then the backoff
OnException == "backoff"

\* an exception raised anywhere in the try block reaches the handler
MainException ==
  /\ pc \in InIteration
  /\ pc' = OnException
  /\ Cleared
  /\ UNCHANGED <<syncVars, ret, akeys, aexc, adds, workerVars, histVars, checkpointVars,
                 search_queries, now, loop_count, skip_result, passVars>>

\* time.sleep(10); continue
MainBackoff ==
  /\ pc = "backoff"
  /\ pc' = "loop_start"
  /\ UNCHANGED <<syncVars, ret, akeys, aexc, adds, workerVars, histVars, mainVars>>

\* the clock moves on while the scan thread waits for a search or sleeps
Tick ==
  /\ pc \in {"search", "sleep", "backoff"}
  /\ now < MaxClock
  /\ now' = now + 1
  /\ UNCHANGED <<syncVars, scanVars, workerVars, histVars, checkpointVars,
                 search_queries, loop_count, qi, query_count, n_items, item_index, item,
                 skip_stats, skip_result, passVars>>

NextMain ==
  \/ MainLoopStart /\ UNCHANGED <<enqVars, flushVars>>
  \/ MainForQuery /\ UNCHANGED <<enqVars, flushVars>>
  \/ MainSearch /\ UNCHANGED <<enqVars, flushVars>>
  \/ MainForItem /\ UNCHANGED <<enqVars, flushVars>>
  \/ MainProcessItem /\ UNCHANGED <<enqVars, flushVars>>
  \/ MainAfterItem /\ UNCHANGED <<enqVars, flushVars>>
  \/ MainQueryDone /\ UNCHANGED <<enqVars, flushVars>>
  \/ MainSleep /\ UNCHANGED <<enqVars, flushVars>>
  \/ MainException /\ UNCHANGED <<enqVars, flushVars>>
  \/ MainBackoff /\ UNCHANGED <<enqVars, flushVars>>
  \/ Tick /\ UNCHANGED <<enqVars, flushVars>>

\* the scan thread alone
SpecMain == InitMain /\ [][NextMain]_vars

\* time.sleep(10) returns and the thread goes on with the while loop
Resume == (MainBackoff \/ MainLoopStart) /\ UNCHANGED <<enqVars, flushVars>>

\* the scan thread alone, never stopping at the backoff or the loop head
SpecMainFair == SpecMain /\ WF_vars(Resume)

\* ------------------------------------------- process_item, validate_gemini_key
\* A file content is a sequence of symbols: "k1", "k2" (each one match of the
\* key pattern, KeyLen characters long), "." (a full stop), "y" (the text
\* your_ in any case, five characters) and "x" (any other character).
KeyLen == 39             \* AIzaSy + 33 characters
SnippetLen == 45         \* content[context_index:context_index + 45]
MaxContentLen == 5
ContentChars == Keys \cup {".", "y", "x"}
Contents == UNION {[1..n -> ContentChars] : n \in 0..MaxContentLen}
Width(c) == IF c \in Keys THEN KeyLen ELSE IF c = "y" THEN 5 ELSE 1

\* re.findall(pattern, content): the matches, in the order of the text
extract_keys_from_content(content) == SelectSeq(content, LAMBDA c : c \in Keys)

\* content.find(key): where the key string first stands
Find(content, key) == CHOOSE i \in DOMAIN content :
                        content[i] = key /\ \A j \in 1..(i - 1) : content[j] # key

\* the symbols from position j on that fit whole into `room` characters
RECURSIVE Fitting(_, _, _)
Fitting(content, j, room) ==
  IF j > Len(content) \/ Width(content[j]) > room THEN <<>>
  ELSE <<content[j]>> \o Fitting(content, j + 1, room - Width(content[j]))

\* content[i:i + 45] for a key standing at i: the key and what follows it
Snippet(content, i) == Fitting(content, i, SnippetLen)

\* "..." in snippet or "YOUR_" in snippet.upper()
Placeholder(snippet) ==
  Contains(snippet, <<".", ".", ".">>) \/ \E i \in DOMAIN snippet : snippet[i] = "y"

\* context_index = content.find(key); the snippet is taken there, at the
\* first place the key string stands, for every match of that string
KeptMatch(content, i) == ~Placeholder(Snippet(content, Find(content, content[i])))

\* filtered_keys, as the places of the matches appended to it
FilteredMatches(content) ==
  {i \in DOMAIN content : content[i] \in Keys /\ KeptMatch(content, i)}

\* keys = list(set(filtered_keys))
Candidates(content) == {content[i] : i \in FilteredMatches(content)}

\* The verdicts, letter by letter, as process_item tests them with `in`.
V_ok == <<"o", "k">>
V_not_authorized_key ==
  <<"n", "o", "t", "_", "a", "u", "t", "h", "o", "r", "i", "z", "e", "d", "_", "k", "e", "y">>
V_rate_limited == <<"r", "a", "t", "e", "_", "l", "i", "m", "i", "t", "e", "d">>
V_rate_limited_429 == V_rate_limited \o <<":", "4", "2", "9">>
V_disabled == <<"d", "i", "s", "a", "b", "l", "e", "d">>
\* e.__class__.__name__ of two exceptions a network call can raise
ErrorClasses == {<<"V", "a", "l", "u", "e", "E", "r", "r", "o", "r">>,
                 <<"B", "r", "o", "k", "e", "n", "P", "i", "p", "e", "E", "r", "r", "o", "r">>}

\* generate_content("hi") returns, or raises: kind is "returns",
\* "PermissionDenied", "Unauthenticated", "TooManyRequests" or "other"; for
\* "other", text says what str(e) holds ("429": 429, rate limit or quota;
\* "403": 403, SERVICE_DISABLED or API has not been used) and cls is the
\* name of the exception's class.
ValidateOutcomes ==
  [kind : {"returns", "PermissionDenied", "Unauthenticated", "TooManyRequests", "other"},
   text : {"429", "403", "plain"}, cls : ErrorClasses]

validate_gemini_key(o) ==
  IF o.kind = "returns" THEN V_ok
  ELSE IF o.kind \in {"PermissionDenied", "Unauthenticated"} THEN V_not_authorized_key
  ELSE IF o.kind = "TooManyRequests" THEN V_rate_limited
  ELSE IF o.text = "429" THEN V_rate_limited_429
  ELSE IF o.text = "403" THEN V_disabled
  ELSE <<"e", "r", "r", "o", "r", ":">> \o o.cls

Verdicts == {validate_gemini_key(o) : o \in ValidateOutcomes}

\* if validation_result and "ok" in validation_result: ...
\* elif validation_result == "rate_limited": ... else: ...
Route(validation_result) ==
  IF validation_result # <<>> /\ Contains(validation_result, V_ok) THEN "valid"
  ELSE IF validation_result = V_rate_limited THEN "rate_limited" ELSE "invalid"

\* a list holding the elements of S
AnyOrder(S) == CHOOSE seq \in [1..Cardinality(S) -> S] : Range(seq) = S

NoTriage == [filtered |-> {}, validated |-> {}, valid_keys |-> {}, rate_limited_keys |-> {},
             saved_valid |-> {}, saved_rate_limited |-> {}, enqueued |-> {},
             ret |-> <<0, 0>>]

InitTriage ==
  /\ SyncInit /\ balancer_enabled /\ gpt_load_enabled
  /\ WorkerInit /\ HistInit /\ EnqQuiet /\ MainQuiet
  /\ pc = "main" /\ ret = "main" /\ akeys = <<>> /\ aexc = FALSE /\ adds = 0
  /\ fstage = "off" /\ fkind = "" /\ fkeys = {} /\ fin = NoIn /\ fout = NoOut
  /\ CacheQuiet /\ NormQuiet /\ ShutQuiet
  /\ tstage = "ready"
  /\ \E content \in Contents : tin = [content |-> content, verdict |-> << >>]
  /\ tout = NoTriage

\* process_item(item): content is what get_file_content returned (<<>>: it
\* returned nothing); each candidate gets the verdict of validate_gemini_key.
ProcessItem ==
  /\ tstage = "ready"
  /\ tstage' = "done"
  /\ LET content == tin.content
         keys == Candidates(content)
     IN  IF content = <<>> \/ keys = {}
           THEN /\ tin' = tin
                /\ tout' = [NoTriage EXCEPT !.filtered = FilteredMatches(content)]
                /\ UNCHANGED <<wait_send_balancer, wait_send_gpt_load, persisted>>
           ELSE \E verdict \in [keys -> Verdicts], written \in BOOLEAN :
                  LET valid_keys == {k \in keys : Route(verdict[k]) = "valid"}
                      rate_limited_keys == {k \in keys : Route(verdict[k]) = "rate_limited"}
                      b == IF balancer_enabled /\ valid_keys # {}
                             THEN SetUpdate(wait_send_balancer, AnyOrder(valid_keys))
                             ELSE wait_send_balancer
                      g == IF gpt_load_enabled /\ valid_keys # {}
                             THEN SetUpdate(wait_send_gpt_load, AnyOrder(valid_keys))
                             ELSE wait_send_gpt_load
                  IN  /\ tin' = [content |-> content, verdict |-> verdict]
                      /\ tout' = [filtered |-> FilteredMatches(content),
                                  validated |-> keys,
                                  valid_keys |-> valid_keys,
                                  rate_limited_keys |-> rate_limited_keys,
                                  saved_valid |-> valid_keys,
                                  saved_rate_limited |-> rate_limited_keys,
                                  enqueued |-> valid_keys,
                                  ret |-> <<Cardinality(valid_keys),
                                            Cardinality(rate_limited_keys)>>]
                      /\ wait_send_balancer' = b
                      /\ wait_send_gpt_load' = g
                      /\ persisted' =
                           IF valid_keys # {} /\ written
                             THEN [balancer |-> PendingSet(b), gpt_load |-> PendingSet(g)]
                             ELSE persisted
  /\ UNCHANGED <<saving_checkpoint, balancer_enabled, gpt_load_enabled, shutdown_flag,
                 batch_timer, queue, runs, scanVars, workerVars, histVars, enqVars,
                 fstage, fkind, fkeys, fin, fout, cacheVars, normVars, shutVars, mainVars>>

NextTriage == ProcessItem

SpecTriage == InitTriage /\ [][NextTriage]_vars

\* ==================================================================== claims
ScanHoldsFlag == pc \in {"a_update_b", "a_update_g", "a_save", "a_release"}
WorkerHoldsFlag(w) ==
  wpc[w] \in {"balancer", "balancer_done", "gpt_load", "gpt_load_done", "save", "release"}

\* C1: between setting saving_checkpoint and releasing it in the finally
\* block there is never more than one of: the add_keys_to_queue call of the
\* scan thread, a _batch_send_worker run of either pool worker.
C1_MutualExclusion ==
  /\ \A w \in Workers : ~(ScanHoldsFlag /\ WorkerHoldsFlag(w))
  /\ \A w1, w2 \in Workers : w1 # w2 => ~(WorkerHoldsFlag(w1) /\ WorkerHoldsFlag(w2))

\* C2: a key leaves a sink's pending set only in the clear of a flush whose
\* sent batch held that key and whose result was ok.
C2_RemovedOnlyByOkFlush ==
  [][\A k \in Keys :
       /\ (wait_send_balancer[k] > 0 /\ wait_send_balancer'[k] = 0) =>
            \E w \in Workers : /\ wpc[w] = "balancer_done" /\ wpc'[w] = "gpt_load"
                               /\ wres[w] = "ok" /\ k \in wkeys[w]
       /\ (wait_send_gpt_load[k] > 0 /\ wait_send_gpt_load'[k] = 0) =>
            \E w \in Workers : /\ wpc[w] = "gpt_load_done" /\ wpc'[w] = "save"
                               /\ wres[w] = "ok" /\ k \in wkeys[w]]_vars

\* C3: the step of a _batch_send_worker run that follows a sink's flush
\* empties that sink's pending set when the result is ok and leaves it as it
\* was on any other result; no other step of a run changes a pending set.
C3_ClearIffOk ==
  [][\A w \in Workers : wpc'[w] # wpc[w] =>
       /\ wpc[w] = "balancer_done" =>
            /\ wres[w] = "ok" => PendingSet(wait_send_balancer') = {}
            /\ wres[w] # "ok" => wait_send_balancer' = wait_send_balancer
       /\ wpc[w] # "balancer_done" => wait_send_balancer' = wait_send_balancer
       /\ wpc[w] = "gpt_load_done" =>
            /\ wres[w] = "ok" => PendingSet(wait_send_gpt_load') = {}
            /\ wres[w] # "ok" => wait_send_gpt_load' = wait_send_gpt_load
       /\ wpc[w] # "gpt_load_done" => wait_send_gpt_load' = wait_send_gpt_load]_vars

\* a run whose balancer flush returned ok has emptied the balancer queue
C3_Witness ==
  \E w \in Workers : /\ wpc[w] = "gpt_load" /\ wres[w] = "ok"
                     /\ PendingSet(wait_send_balancer) = {}
                     /\ owed_g # {}

\* C4: every key of a returned add_keys_to_queue call is in the persisted
\* pending set of each enabled sink until a flush of that sink that held the
\* key returned ok.
C4_EnqueueDurable ==
  /\ owed_b \subseteq persisted.balancer
  /\ owed_g \subseteq persisted.gpt_load

\* C5: add_keys_to_queue is a set union: no key is twice in a queue, a call
\* repeating the key list of the call before it leaves both queues as that
\* call left them, and one key enqueued twice into an empty queue gives a
\* queue of size one.
C5_EnqueueIdempotent ==
  /\ \A k \in Keys : wait_send_balancer[k] <= 1 /\ wait_send_gpt_load[k] <= 1
  /\ rep => last_b = before_b /\ last_g = before_g
  /\ (rep /\ Len(last_keys) = 1 /\ adds = 2 /\ Size(start_b) = 0 /\ balancer_enabled)
       => Size(last_b) = 1

\* the same single key was enqueued twice into an empty balancer queue
C5_Witness ==
  /\ pc = "main" /\ rep /\ Len(last_keys) = 1 /\ adds = 2
  /\ Size(start_b) = 0 /\ balancer_enabled /\ Size(wait_send_balancer) = 1

\* C10: a balancer flush that fetched a key list holding every key of the
\* batch makes no PUT, returns ok and records ok for every key of the batch.
C10_AllPresentRecordedOk ==
  (/\ fstage = "done" /\ fkind = "balancer"
   /\ fin.raise_at # "get" /\ fin.get_ok
   /\ fkeys \subseteq fin.current_api_keys)
    => /\ fout.puts = 0
       /\ fout.result = "ok"
       /\ \A k \in fkeys : fout.rec[k] = "ok"

\* C9: should_skip_item answers with the first of time_filter, sha_duplicate,
\* age_filter, doc_filter whose condition holds and counts that one alone;
\* when none holds it answers (False, "") and counts nothing.
RuleOrder == <<"time_filter", "sha_duplicate", "age_filter", "doc_filter">>
RuleHolds(r) ==
  CASE r = "time_filter" ->
         last_scan_time # 0 /\ item.pushed_at # 0 /\ item.pushed_at <= last_scan_time
    [] r = "sha_duplicate" -> item.sha \in scanned_shas
    [] r = "age_filter" -> item.pushed_at # 0 /\ item.pushed_at + DateRangeDays < now
    [] r = "doc_filter" ->
         \E token \in FILE_PATH_BLACKLIST : \E i \in DOMAIN item.path :
           /\ i + Len(token) - 1 <= Len(item.path)
           /\ \A j \in DOMAIN token :
                item.path[i + j - 1] = token[j]
                  \/ (item.path[i + j - 1] = "D" /\ token[j] = "d")
Matching == {i \in DOMAIN RuleOrder : RuleHolds(RuleOrder[i])}
C9_FirstRuleWins ==
  pc = "skip_done" =>
    IF Matching = {}
      THEN skip_result = [skip |-> FALSE, reason |-> ""] /\ skip_stats = stats_before
      ELSE LET first == RuleOrder[CHOOSE i \in Matching : \A j \in Matching : i <= j]
           IN  /\ skip_result = [skip |-> TRUE, reason |-> first]
               /\ \A r \in Reasons :
                    skip_stats[r] = stats_before[r] + (IF r = first THEN 1 ELSE 0)

\* an item pushed after the last scan whose sha was scanned and which is also
\* too old and on a blacklisted path: sha_duplicate wins
C9_Witness ==
  /\ pc = "skip_done"
  /\ last_scan_time # 0 /\ item.pushed_at > last_scan_time
  /\ {2, 3, 4} \subseteq Matching
  /\ skip_result = [skip |-> TRUE, reason |-> "sha_duplicate"]

\* C6: processed_queries is emptied at the start of every pass, so it only
\* ever holds normalized queries that the current pass completed.
C6_ProcessedResetEachPass ==
  /\ processed_queries \subseteq pass_done
  /\ (pc = "for_query" /\ qi = 1) => processed_queries = {}

\* C7: in one pass, a query whose normalized form equals that of an earlier
\* query of the list is neither searched nor counted as processed.
C7_SameNormalizedOnce ==
  \A j \in searched \cup counted : \A i \in 1..(j - 1) :
    normalize_query(search_queries[i]) # normalize_query(search_queries[j])

\* the first pass went through two differently written queries with one
\* normalized form: the first was searched and counted, the second skipped
C7_Witness ==
  /\ loop_count = 1 /\ pc = "for_query" /\ qi = 3
  /\ search_queries[1] # search_queries[2]
  /\ normalize_query(search_queries[1]) = normalize_query(search_queries[2])
  /\ searched = {1} /\ counted = {1}

\* C8: last_scan_time changes only when a pass over the whole query list is
\* complete, and it never decreases.
C8_ScanTimeOnlyAfterPass ==
  [][last_scan_time' # last_scan_time =>
       /\ qi = Len(search_queries)
       /\ last_scan_time' >= last_scan_time]_vars

\* C11: a balancer flush whose PUT answer leaves out newly added keys records
\* those keys, and only those, as update_failed, records ok for every other
\* key of the batch, and does not return ok.
C11_OmittedKeyAloneFailed ==
  (/\ fstage = "done" /\ fkind = "balancer"
   /\ fin.raise_at = "none" /\ fin.get_ok /\ fin.put_ok
   /\ (fkeys \ fin.current_api_keys) \ fin.updated_api_keys # {})
    => LET omitted == (fkeys \ fin.current_api_keys) \ fin.updated_api_keys
       IN  /\ fout.result # "ok"
           /\ \A k \in Keys :
                fout.rec[k] = IF k \in omitted THEN "update_failed"
                              ELSE IF k \in fkeys THEN "ok" ELSE "none"

\* C12 as stated: two calls of _get_gpt_load_group_id for one name less than
\* the TTL apart make exactly one GET /groups between them.
C12_OneFetchWithinTtl ==
  (cache_hist.calls = 2 /\ cache_hist.cur.time - cache_hist.prev.time < group_id_cache_ttl)
    => (cache_hist.prev.fetched /\ ~cache_hist.cur.fetched)
       \/ (~cache_hist.prev.fetched /\ cache_hist.cur.fetched)

\* C12, amended: when the earlier call fetched the list and found the name,
\* a call less than the TTL later fetches nothing and returns the same id, so
\* the two make exactly one fetch; when the earlier call returned None the
\* later call fetches again; and a call a full TTL or more after the earlier
\* one fetches again.
C12_CachedOnlyWhenResolved ==
  cache_hist.calls = 2 =>
    LET prev == cache_hist.prev
        cur == cache_hist.cur
    IN  /\ (prev.fetched /\ prev.result # "None" /\ cur.time - prev.time < group_id_cache_ttl)
             => (~cur.fetched /\ cur.result = prev.result)
        /\ prev.result = "None" => cur.fetched
        /\ cur.time - prev.time >= group_id_cache_ttl => cur.fetched

\* the name was fetched and found, asked again one second before the TTL ran
\* out and answered from the cache
C12_Witness ==
  /\ cache_hist.calls = 2
  /\ cache_hist.prev.fetched /\ cache_hist.prev.result # "None"
  /\ cache_hist.cur.time - cache_hist.prev.time = group_id_cache_ttl - 1
  /\ ~cache_hist.cur.fetched /\ cache_hist.cur.result = cache_hist.prev.result

\* C13: in a gpt_load flush every group whose id resolved is POSTed the full
\* batch, whatever the other groups met; with no failed group the flush
\* returns ok and records ok for every key of the batch; with k >= 1 failed
\* groups it returns partial_failure and records partial_failure with the
\* count k for every key of the batch.
C13_GroupFailuresIsolated ==
  (fstage = "done" /\ fkind = "gpt_load" /\ ~fin.raises) =>
    LET failed == {g \in GroupNames : fin.outs[g] # "ok"}
    IN  /\ \A g \in GroupNames : fin.outs[g] # "no_group_id" => fout.posted[g] = fkeys
        /\ failed = {} =>
             /\ fout.result = "ok"
             /\ \A k \in fkeys : fout.rec[k] = GptRec("ok", 0)
        /\ failed # {} =>
             /\ fout.result = "partial_failure"
             /\ \A k \in fkeys : fout.rec[k] = GptRec("partial_failure", Cardinality(failed))

\* C14: in a _batch_send_worker run the step after the balancer flush leaves
\* the gpt_load queue as it was and goes on to the gpt_load sink whatever the
\* balancer flush returned; the gpt_load flush is then attempted with the whole
\* queue whenever the sink is enabled and the queue is not empty; and the
\* step after the gpt_load flush leaves the balancer queue as it was and
\* empties the gpt_load queue exactly when its own result is ok.
C14_SinksIndependent ==
  [][\A w \in Workers : wpc'[w] # wpc[w] =>
       /\ wpc[w] = "balancer_done" =>
            /\ wait_send_gpt_load' = wait_send_gpt_load
            /\ wpc'[w] = "gpt_load"
       /\ (wpc[w] = "gpt_load" /\ gpt_load_enabled /\ PendingSet(wait_send_gpt_load) # {}) =>
            /\ wpc'[w] = "gpt_load_done"
            /\ wkeys'[w] = PendingSet(wait_send_gpt_load)
       /\ wpc[w] = "gpt_load_done" =>
            /\ wait_send_balancer' = wait_send_balancer
            /\ wres[w] = "ok" => PendingSet(wait_send_gpt_load') = {}
            /\ wres[w] # "ok" => wait_send_gpt_load' = wait_send_gpt_load]_vars

\* a run whose balancer flush ended with an exception has left both queues as
\* they were and stands before the gpt_load flush
C14_Witness ==
  \E w \in Workers :
    /\ wpc[w] = "gpt_load" /\ wres[w] = "exception"
    /\ PendingSet(wait_send_balancer) # {}
    /\ gpt_load_enabled /\ PendingSet(wait_send_gpt_load) # {}

\* C15: process_item saves a key as valid and hands it to add_keys_to_queue
\* exactly when its verdict is ok; a key with a rate-limited verdict is saved
\* to the rate-limited output and not enqueued; a key with any other verdict
\* is saved nowhere and not enqueued.
C15_RoutedByVerdict ==
  tstage = "done" =>
    \A k \in tout.validated :
      LET v == tin.verdict[k]
      IN  /\ (k \in tout.saved_valid) <=> (v = V_ok)
          /\ (k \in tout.enqueued) <=> (v = V_ok)
          /\ v \in {V_rate_limited, V_rate_limited_429} =>
               k \in tout.saved_rate_limited
          /\ v \notin {V_rate_limited, V_rate_limited_429} =>
               k \notin tout.saved_rate_limited

\* C16: a match of the key pattern whose own snippet holds "..." is not among
\* the matches that go on to be validated, whatever else the content holds.
C16_EllipsisMatchDropped ==
  tstage = "done" =>
    \A i \in DOMAIN tin.content :
      (tin.content[i] \in Keys /\ Contains(Snippet(tin.content, i), <<".", ".", ".">>))
        => i \notin tout.filtered

\* C17: normalize_query of a token list joined by spaces is the same for
\* every order of the tokens: the quoted tokens, then the other, language,
\* filename and path tokens, each bucket sorted, joined by single spaces.
InBucket(tokens, b) == Texts(SelectSeq(tokens, LAMBDA t : t.bucket = b))
Canonical(tokens) ==
  Join(Sorted(InBucket(tokens, "quoted")) \o Sorted(InBucket(tokens, "other"))
       \o Sorted(InBucket(tokens, "language")) \o Sorted(InBucket(tokens, "filename"))
       \o Sorted(InBucket(tokens, "path")))
C18_AfterIteration == InIteration \cup {"backoff", "loop_start"}

\* C18: an exception raised anywhere inside one iteration of main's loop is
\* caught at the loop boundary: the scan thread leaves the iteration only to
\* the backoff or to the head of the loop, the backoff is followed by the
\* head of the loop, and from the backoff the next iteration starts.
C18_ExceptionCaughtLoopContinues ==
  /\ [][(pc \in InIteration) => (pc' \in C18_AfterIteration)]_vars
  /\ [][pc = "backoff" => pc' \in {"backoff", "loop_start"}]_vars
  /\ [](pc \in C18_AfterIteration)
  /\ (pc = "backoff" /\ loop_count < MaxLoops) ~> (pc = "for_query")

\* the second iteration is under way after the first one ended in the backoff
\* with a query already searched
C18_Witness ==
  /\ pc = "search" /\ loop_count = 2
  /\ processed_queries = {}
  /\ scanned_shas # {}

\* C19: every change of the checkpoint's pending sets and every
\* save_checkpoint that changes the file is made while a thread holds
\* saving_checkpoint: the scan thread inside add_keys_to_queue or a pool
\* worker inside _batch_send_worker.
C19_FlagGatesCheckpoint ==
  [][(\/ persisted' # persisted
      \/ wait_send_balancer' # wait_send_balancer
      \/ wait_send_gpt_load' # wait_send_gpt_load)
       => (ScanHoldsFlag \/ \E w \in Workers : WorkerHoldsFlag(w))]_vars

\* C20: no request to a sink is made by a thread that holds
\* saving_checkpoint: a pool worker calls _send_balancer_worker or
\* _send_gpt_load_worker only outside the stretch between setting the flag
\* and releasing it.
C20_NoSinkCallUnderFlag ==
  [][\A w \in Workers :
       (\/ wpc[w] = "balancer" /\ wpc'[w] = "balancer_done"
        \/ wpc[w] = "gpt_load" /\ wpc'[w] = "gpt_load_done")
         => ~(saving_checkpoint /\ WorkerHoldsFlag(w))]_vars

\* the first half of C21: a call or run that holds the flag ends by
\* resetting it
C21_FlagReleasedAtEnd ==
  /\ [][(ScanHoldsFlag /\ ~ScanHoldsFlag') => ~saving_checkpoint']_vars
  /\ [][\A w \in Workers :
          (WorkerHoldsFlag(w) /\ ~WorkerHoldsFlag(w)') => ~saving_checkpoint']_vars

\* C21: every add_keys_to_queue call and every _batch_send_worker run that
\* set saving_checkpoint resets it when it ends, and an add_keys_to_queue
\* call waiting for the flag eventually gets it and returns, while the timer
\* keeps submitting flushes.
C21_NoIndefiniteBlocking ==
  /\ C21_FlagReleasedAtEnd
  /\ (pc = "a_wait") ~> (pc = "main")

\* C22: once shutdown() has returned, no timer is pending, no
\* _batch_send_worker run is in progress or waiting in the pool, and no new
\* flush is submitted.
C22_OrderedShutdown ==
  pc = "exited" =>
    /\ batch_timer \notin {"armed", "created"} /\ tpc \notin {"create", "start"}
    /\ queue = 0 /\ \A w \in Workers : wpc[w] = "idle"

\* C23: when the content fetch of an item fails, process_item returns
\* without touching the queues, and the failed attempt does not put the
\* item's sha into scanned_shas, so that should_skip_item will not reject the
\* item as sha_duplicate in a later cycle.
C23_FailedFetchDefersItem ==
  [][/\ (pc = "process_item" /\ pc' = "after_fetch_failed")
          => UNCHANGED <<wait_send_balancer, wait_send_gpt_load, persisted>>
     /\ (pc = "after_fetch_failed") => (item.sha \notin scanned_shas')]_vars

====
